---- MODULE Spec2Model ----
(***************************************************************************)
(* Model of the beads planning tools of docs/system-prompts:               *)
(*   planning-summary.py  (BeadsSummary: load, categorize; the scan of all *)
(*                         projects and find_next_bead)                    *)
(*   planning-doctor.py   (BeadsDoctor: the five checks, the fixes and the *)
(*                         exit status of main)                            *)
(* The external item store (bd / .beads/issues.jsonl) is the variable      *)
(* store; each run of a tool reads one snapshot of it.                     *)
(*   Spec        runs of the summary on any item list of one source        *)
(*   ChainSpec   runs of the summary on a chain whose ready item is closed *)
(*   DoctorSpec  one run of the doctor on any item list                    *)
(*   StaleSpec   one run of the doctor on claimed items                    *)
(*   ProjectsSpec, ProjectsFairSpec                                        *)
(*               one multi-project run of the summary                      *)
(*   PrioritySpec  the same run on items with any kind of priority value   *)
(*   LinkedSpec    the same run on two sources whose ids collide           *)
(*   RunSpec       one run of the doctor from command line to exit status  *)
(*   DagSpec, DagFairSpec                                                  *)
(*               runs of the summary on a DAG whose ready items are closed *)
(***************************************************************************)
EXTENDS Integers, Sequences, FiniteSets, TLC

\* ---------------------------------------------------------------- bounds
\* Items in a source handed to the summary, and edges in all its records.
MaxBeads == 2
MaxEdges == 2
\* Length of the chain worked off by closing.
MaxChain == 3
\* Items in a source handed to the doctor, and blocked_by entries in all its
\* records.
MaxDoctorBeads == 3
MaxBlockers == 3

\* Submodules with a .beads directory next to the root project, and items in
\* all the sources of a multi-project run together.
MaxSubmodules == 1
MaxProjectBeads == 2
\* Ready items of a source whose priority fields are of any JSON type.
MaxPriorityBeads == 2
\* Items in each of two sources of which one has dependencies, and the
\* dependencies in all its records.
MaxSourceBeads == 2
MaxSourceEdges == 1
\* Items in the store of a complete doctor run.
MaxRunBeads == 2
\* Items in a source whose blocking edges form a DAG, and its edges.
MaxDagBeads == 3
MaxDagEdges == 2
\* Items in a source handed to the stale check.
MaxStaleBeads == 2

\* ------------------------------------------------------------ vocabulary
\* A key that the JSON record does not carry.
Absent == "(absent)"

\* Raw status strings a record may carry (or none at all).
RawStatuses == {Absent, "open", "closed", "in_progress", "blocked", "deferred", "ready"}

DepTypes == {"blocks", "parent-child"}

BeadIds == 1..MaxBeads

\* ----------------------------------------------------------------- state
VARIABLES
    store,          \* the item list held by the external store
    pc,             \* position of the planning-summary run
    all_beads,      \* BeadsSummary.all_beads
    closed,         \* BeadsSummary.closed       (references into all_beads)
    in_progress,    \* BeadsSummary.in_progress
    ready,          \* BeadsSummary.ready
    blocked,        \* BeadsSummary.blocked
    failures,       \* BeadsSummary.failures
    d_pc,           \* position of the planning-doctor run
    d_beads,        \* BeadsDoctor.all_beads
    auto_fix,       \* BeadsDoctor.auto_fix (--fix)
    check,          \* args.check (--check), "all" when not given
    bd_available,   \* whether the bd executable can be started at all
    issues,         \* BeadsDoctor.issues
    fixes_applied,  \* BeadsDoctor.fixes_applied
    ret,            \* value returned by the last check
    raised,         \* an exception left the doctor's check uncaught
    warnings,       \* BeadsDoctor.warnings
    stale_threshold_hours,  \* BeadsDoctor.stale_threshold_hours (--stale-threshold)
    commands,       \* the bd commands that change the store, as the doctor starts them
    doctor_exit,    \* exit status of the doctor's process, -1 while it runs
    sources,        \* the root project and the submodules with a .beads directory
    next_bead,      \* args.next_bead (--next-bead)
    p_pc,           \* position of the multi-project run of planning-summary
    projects,       \* the list returned by process_all_projects
    ranked,         \* the list returned by find_next_bead
    exit_status     \* exit status of the multi-project run

svars == <<pc, all_beads, closed, in_progress, ready, blocked, failures>>
dvars == <<d_pc, d_beads, auto_fix, check, bd_available, issues, fixes_applied, ret, raised,
           warnings, stale_threshold_hours, commands, doctor_exit>>
pvars == <<sources, next_bead, p_pc, projects, ranked, exit_status>>
vars == <<store, svars, dvars, pvars>>

\* ------------------------------------------------------- dict accessors
\* bead.get('status', 'unknown')
GetStatus(bead) == IF bead.status = Absent THEN "unknown" ELSE bead.status

\* bead.get('blocked_by', [])
GetBlockedBy(bead) == IF bead.has_blocked_by THEN bead.blocked_by ELSE <<>>

\* status_map.get(dep_id, 'closed'): a missing target taken as resolved.
StatusMapGet_DefaultClosed(beads, dep_id) ==
    LET hits == {i \in 1..Len(beads) : beads[i].id = dep_id}
    IN  IF hits = {} THEN "closed"
        ELSE GetStatus(beads[CHOOSE i \in hits : \A j \in hits : j <= i])

\* status_map = {b['id']: b.get('status', 'unknown') for b in self.all_beads}
\* followed by status_map.get(dep_id, 'unknown'); a later record with the
\* same id overwrites an earlier one.
StatusMapGet(beads, dep_id) ==
    LET hits == {i \in 1..Len(beads) : beads[i].id = dep_id}
    IN  IF hits = {} THEN "unknown"
        ELSE GetStatus(beads[CHOOSE i \in hits : \A j \in hits : j <= i])

\* The loop leaving after the first blocking dependency.
RECURSIVE Blockers_FirstOnly(_, _, _)
Blockers_FirstOnly(beads, deps, k) ==
    IF k > Len(deps) THEN <<>>
    ELSE IF deps[k].type = "parent-child" THEN Blockers_FirstOnly(beads, deps, k + 1)
    ELSE IF StatusMapGet(beads, deps[k].depends_on_id) # "closed"
         THEN <<deps[k].depends_on_id>>
         ELSE <<>>

\* The loop without the parent-child skip.
RECURSIVE Blockers_NoSkip(_, _, _)
Blockers_NoSkip(beads, deps, k) ==
    IF k > Len(deps) THEN <<>>
    ELSE IF StatusMapGet(beads, deps[k].depends_on_id) # "closed"
         THEN <<deps[k].depends_on_id>> \o Blockers_NoSkip(beads, deps, k + 1)
         ELSE Blockers_NoSkip(beads, deps, k + 1)

\* The loop taking every blocking dependency as unresolved.
RECURSIVE Blockers_NeverResolved(_, _, _)
Blockers_NeverResolved(beads, deps, k) ==
    IF k > Len(deps) THEN <<>>
    ELSE IF deps[k].type = "parent-child" THEN Blockers_NeverResolved(beads, deps, k + 1)
    ELSE <<deps[k].depends_on_id>> \o Blockers_NeverResolved(beads, deps, k + 1)

\* The inner loop over dependencies: the ids appended to blockers, in order
\* (is_blocked is True exactly when blockers is non-empty).
RECURSIVE Blockers(_, _, _)
Blockers(beads, deps, k) ==
    IF k > Len(deps) THEN <<>>
    ELSE IF deps[k].type = "parent-child" THEN Blockers(beads, deps, k + 1)
    ELSE IF StatusMapGet(beads, deps[k].depends_on_id) # "closed"
         THEN <<deps[k].depends_on_id>> \o Blockers(beads, deps, k + 1)
         ELSE Blockers(beads, deps, k + 1)

\* The if/elif chain with the dependency analysis moved in front of it.
BucketOf_DepsFirst(beads, bead) ==
    LET status == GetStatus(bead)
    IN  IF Blockers(beads, bead.dependencies, 1) # <<>> THEN "blocked"
        ELSE IF status = "closed" THEN "closed"
        ELSE IF status \in {"in-progress", "in_progress"} THEN "in_progress"
        ELSE "ready"

\* The if/elif chain without the dependency analysis.
BucketOf_IgnoreDeps(beads, bead) ==
    LET status == GetStatus(bead)
    IN  IF status = "closed" THEN "closed"
        ELSE IF status \in {"in-progress", "in_progress"} THEN "in_progress"
        ELSE "ready"

\* The bucket one bead is appended to by the if/elif chain.
BucketOf(beads, bead) ==
    LET status == GetStatus(bead)
    IN  IF status = "closed" THEN "closed"
        ELSE IF status \in {"in-progress", "in_progress"} THEN "in_progress"
        ELSE IF status = "ready" THEN "ready"
        ELSE IF status \in {"not-ready", "open", "unknown"}
             THEN IF Blockers(beads, bead.dependencies, 1) # <<>>
                  THEN "blocked" ELSE "ready"
        ELSE "ready"

\* A BeadsSummary after __init__ and load_beads: the list, and empty buckets.
EmptyBuckets(beads) ==
    [all_beads |-> beads, closed |-> <<>>, in_progress |-> <<>>, ready |-> <<>>,
     blocked |-> <<>>, failures |-> <<>>]

\* The pass attaching blocked_by to every bead, whatever its bucket.
RECURSIVE CategorizeFrom_AttachAll(_, _)
CategorizeFrom_AttachAll(i, st) ==
    IF i > Len(st.all_beads) THEN st
    ELSE
      LET bead == st.all_beads[i]
          b == BucketOf(st.all_beads, bead)
          blockers == Blockers(st.all_beads, bead.dependencies, 1)
      IN  CategorizeFrom_AttachAll(i + 1,
            [all_beads   |-> [st.all_beads EXCEPT ![i].blocked_by = blockers,
                                                  ![i].has_blocked_by = TRUE],
             closed      |-> IF b = "closed" THEN Append(st.closed, i) ELSE st.closed,
             in_progress |-> IF b = "in_progress" THEN Append(st.in_progress, i)
                             ELSE st.in_progress,
             ready       |-> IF b = "ready" THEN Append(st.ready, i) ELSE st.ready,
             blocked     |-> IF b = "blocked" THEN Append(st.blocked, i) ELSE st.blocked,
             failures    |-> IF "failure" \in bead.labels THEN Append(st.failures, i)
                             ELSE st.failures])

\* The pass without the final else: a status outside the chain gives no bucket.
RECURSIVE CategorizeFrom_NoElse(_, _)
CategorizeFrom_NoElse(i, st) ==
    IF i > Len(st.all_beads) THEN st
    ELSE
      LET bead == st.all_beads[i]
          known == GetStatus(bead) \in {"closed", "in-progress", "in_progress", "ready",
                                        "not-ready", "open", "unknown"}
          b == IF known THEN BucketOf(st.all_beads, bead) ELSE "none"
          blockers == Blockers(st.all_beads, bead.dependencies, 1)
      IN  CategorizeFrom_NoElse(i + 1,
            [all_beads   |-> IF b = "blocked"
                             THEN [st.all_beads EXCEPT ![i].blocked_by = blockers,
                                                       ![i].has_blocked_by = TRUE]
                             ELSE st.all_beads,
             closed      |-> IF b = "closed" THEN Append(st.closed, i) ELSE st.closed,
             in_progress |-> IF b = "in_progress" THEN Append(st.in_progress, i)
                             ELSE st.in_progress,
             ready       |-> IF b = "ready" THEN Append(st.ready, i) ELSE st.ready,
             blocked     |-> IF b = "blocked" THEN Append(st.blocked, i) ELSE st.blocked,
             failures    |-> IF "failure" \in bead.labels THEN Append(st.failures, i)
                             ELSE st.failures])

\* categorize_beads: one pass over all_beads, appending to the buckets and
\* attaching blocked_by to the beads computed blocked.
RECURSIVE CategorizeFrom(_, _)
CategorizeFrom(i, st) ==
    IF i > Len(st.all_beads) THEN st
    ELSE
      LET bead == st.all_beads[i]
          b == BucketOf(st.all_beads, bead)
          blockers == Blockers(st.all_beads, bead.dependencies, 1)
          \* the summary after bead i, in a singleton so that it is computed once
          after ==
            {[all_beads   |-> IF b = "blocked"
                              THEN [st.all_beads EXCEPT ![i].blocked_by = blockers,
                                                        ![i].has_blocked_by = TRUE]
                              ELSE st.all_beads,
              closed      |-> IF b = "closed" THEN Append(st.closed, i) ELSE st.closed,
              in_progress |-> IF b = "in_progress" THEN Append(st.in_progress, i)
                              ELSE st.in_progress,
              ready       |-> IF b = "ready" THEN Append(st.ready, i) ELSE st.ready,
              blocked     |-> IF b = "blocked" THEN Append(st.blocked, i) ELSE st.blocked,
              failures    |-> IF "failure" \in bead.labels THEN Append(st.failures, i)
                              ELSE st.failures]}
      IN  CHOOSE result \in {CategorizeFrom(i + 1, next) : next \in after} : TRUE

\* ------------------------------------------------- multi-project scan
\* The entry process_all_projects appends for one source. A path is the rank
\* of the path string in lexicographic order, 0 for '.', the root; summary is
\* the BeadsSummary, present when loaded is TRUE (None otherwise).
ProjectEntry(src) ==
    IF src.outcome = "ok"
    THEN [path |-> src.path, loaded |-> TRUE,
          summary |-> CategorizeFrom(1, EmptyBuckets(src.beads)), error |-> "None"]
    ELSE IF src.outcome = "false"
    THEN [path |-> src.path, loaded |-> FALSE,
          summary |-> EmptyBuckets(<<>>), error |-> "Failed to load beads"]
    \* except Exception as e
    ELSE [path |-> src.path, loaded |-> FALSE,
          summary |-> EmptyBuckets(<<>>), error |-> "str(e)"]

\* The scan without the try/except around a source: the exception leaves
\* process_all_projects.
RECURSIVE ScanProjects_NoIsolation(_, _, _)
ScanProjects_NoIsolation(srcs, i, st) ==
    IF i > Len(srcs) THEN st
    ELSE IF srcs[i].outcome \in {"hangs", "raises"} THEN [st EXCEPT !.returned = FALSE]
    ELSE ScanProjects_NoIsolation(srcs, i + 1,
                                  [st EXCEPT !.results = Append(@, ProjectEntry(srcs[i]))])

\* The items of all the sources but source i that load.
RECURSIVE OtherBeads(_, _, _)
OtherBeads(srcs, i, j) ==
    IF j > Len(srcs) THEN <<>>
    ELSE IF j = i \/ srcs[j].outcome # "ok" THEN OtherBeads(srcs, i, j + 1)
    ELSE srcs[j].beads \o OtherBeads(srcs, i, j + 1)

\* The entry of source i classified with one status map over all sources.
SharedIndexEntry(srcs, i) ==
    LET own == Len(srcs[i].beads)
        r == CategorizeFrom(1, EmptyBuckets(srcs[i].beads \o OtherBeads(srcs, i, 1)))
        Own(bucket) == SelectSeq(bucket, LAMBDA k : k <= own)
    IN  [path |-> srcs[i].path, loaded |-> TRUE,
         summary |-> [all_beads |-> SubSeq(r.all_beads, 1, own), closed |-> Own(r.closed),
                      in_progress |-> Own(r.in_progress), ready |-> Own(r.ready),
                      blocked |-> Own(r.blocked), failures |-> Own(r.failures)],
         error |-> "None"]

\* The scan with a status map shared by the sources.
RECURSIVE ScanProjects_SharedIndex(_, _, _)
ScanProjects_SharedIndex(srcs, i, st) ==
    IF i > Len(srcs) THEN st
    ELSE IF srcs[i].outcome = "hangs" THEN [st EXCEPT !.returned = FALSE]
    ELSE ScanProjects_SharedIndex(srcs, i + 1,
           [st EXCEPT !.results = Append(@, IF srcs[i].outcome = "ok"
                                            THEN SharedIndexEntry(srcs, i)
                                            ELSE ProjectEntry(srcs[i]))])

\* process_all_projects from source i on (the root is source 1). A load whose
\* subprocess.run never returns (it is given no timeout) keeps the function
\* from returning.
RECURSIVE ScanProjects(_, _, _)
ScanProjects(srcs, i, st) ==
    IF i > Len(srcs) THEN st
    ELSE IF srcs[i].outcome = "hangs" THEN [st EXCEPT !.returned = FALSE]
    ELSE ScanProjects(srcs, i + 1, [st EXCEPT !.results = Append(@, ProjectEntry(srcs[i]))])

\* --------------------------------------------------------- find_next_bead
\* A value of the 'priority' key: kind is missing, null, int, bool, numeral
\* (a string that spells the integer value), word (any other string) or
\* float (value in tenths).
Priority(kind, value) == [kind |-> kind, value |-> value]

\* The conversion replaced by the default: whatever is no int gives 4.
SortPriority_DefaultOnly(p) == IF p.kind = "int" THEN p.value ELSE 4

\* priority = bead.get('priority', 4), converted with int() when it is no
\* int; ValueError and TypeError give 4.
SortPriority(p) ==
    CASE p.kind = "missing" -> 4
      [] p.kind = "int" -> p.value
      [] p.kind = "bool" -> p.value
      [] p.kind = "numeral" -> p.value
      [] p.kind = "float" -> IF p.value >= 0 THEN p.value \div 10 ELSE -((-p.value) \div 10)
      [] OTHER -> 4

\* The candidates of the ready beads of one project, from ready bead k on.
RECURSIVE ReadyCandidates(_, _)
ReadyCandidates(project, k) ==
    IF k > Len(project.summary.ready) THEN <<>>
    ELSE LET bead == project.summary.all_beads[project.summary.ready[k]]
             project_tier == IF project.path = 0 THEN 0 ELSE 1
         IN  <<[bead |-> bead, project_path |-> project.path, project_tier |-> project_tier,
                sort_key |-> <<SortPriority(bead.priority), project_tier, project.path,
                               bead.id>>]>>
             \o ReadyCandidates(project, k + 1)

\* The loop over projects: candidates in the order they are appended.
RECURSIVE Candidates(_, _)
Candidates(projs, i) ==
    IF i > Len(projs) THEN <<>>
    ELSE IF ~projs[i].loaded THEN Candidates(projs, i + 1)
    ELSE ReadyCandidates(projs[i], 1) \o Candidates(projs, i + 1)

\* Tuple comparison with the tier compared before the priority.
KeyLess_TierFirst(a, b) ==
    \E k \in 1..Len(a) :
        /\ <<a[2], a[1], a[3], a[4]>>[k] < <<b[2], b[1], b[3], b[4]>>[k]
        /\ \A j \in 1..(k - 1) : <<a[2], a[1], a[3], a[4]>>[j] = <<b[2], b[1], b[3], b[4]>>[j]

\* Tuple comparison that leaves out the bead id.
KeyLess_NoId(a, b) ==
    \E k \in 1..(Len(a) - 1) : a[k] < b[k] /\ \A j \in 1..(k - 1) : a[j] = b[j]

\* a < b for two sort keys: Python's comparison of tuples.
KeyLess(a, b) ==
    \E k \in 1..Len(a) : a[k] < b[k] /\ \A j \in 1..(k - 1) : a[j] = b[j]

\* One element put into a sorted list behind every element that is not
\* greater: list.sort is stable.
InsertCandidate(sorted, c) ==
    LET before == {k \in 1..Len(sorted) : ~KeyLess(c.sort_key, sorted[k].sort_key)}
        n == IF before = {} THEN 0 ELSE CHOOSE k \in before : \A j \in before : j <= k
    IN  SubSeq(sorted, 1, n) \o <<c>> \o SubSeq(sorted, n + 1, Len(sorted))

\* candidates.sort(key=lambda c: c['_sort_key'])
RECURSIVE SortCandidates(_, _)
SortCandidates(cands, k) ==
    IF k = 0 THEN <<>>
    ELSE InsertCandidate(SortCandidates(cands, k - 1), cands[k])

FindNextBead(projs) ==
    LET candidates == Candidates(projs, 1)
    IN  SortCandidates(candidates, Len(candidates))

\* ------------------------------------------------------ planning-doctor
\* An entry of BeadsDoctor.issues; the keys an entry of its type does not
\* carry are 0 and <<>>.
OrphanIssue(bead_id, blocker_id) ==
    [type |-> "orphaned", bead_id |-> bead_id, blocker_id |-> blocker_id, cycle |-> <<>>]

CircularIssue(cycle) ==
    [type |-> "circular", bead_id |-> 0, blocker_id |-> 0, cycle |-> cycle]

\* bead_ids = {bead['id'] for bead in self.all_beads}
BeadIdSet(beads) == {beads[i].id : i \in 1..Len(beads)}

\* A call of subprocess.run with a bd command that changes the store;
\* confirmed tells whether an answer 'y' to input() came before it. The
\* argument a command does not have is 0 or "".
BdCommand(name, bead_id, blocker_id, label, confirmed) ==
    [name |-> name, bead_id |-> bead_id, blocker_id |-> blocker_id, label |-> label,
     confirmed |-> confirmed]

\* What a successful 'bd dep remove <bead> <blocker>' does to the store.
BdDepRemove(items, bead_id, blocker_id) ==
    [i \in 1..Len(items) |->
        IF items[i].id # bead_id THEN items[i]
        ELSE [items[i] EXCEPT
                !.blocked_by = SelectSeq(@, LAMBDA b : b # blocker_id),
                !.dependencies = SelectSeq(@, LAMBDA d : d.depends_on_id # blocker_id)]]

\* The positions <<i, k>> of the blockers that are no item of the list: the
\* ones a removal command is run for in fix mode.
OrphanPositions(beads) ==
    UNION {{<<i, k>> : k \in {m \in 1..Len(GetBlockedBy(beads[i])) :
                                GetBlockedBy(beads[i])[m] \notin BeadIdSet(beads)}} :
           i \in 1..Len(beads)}

\* The outcomes the removal commands of one run can have: each exits with 0
\* ("ok") or with an error.
CommandOutcomes(beads, fix) ==
    IF fix THEN [OrphanPositions(beads) -> {"ok", "error"}]
    ELSE {[p \in OrphanPositions(beads) |-> "error"]}

\* The loops of check_orphaned_beads with the removal run in every mode.
RECURSIVE OrphanScan_AlwaysFix(_, _, _, _, _)
OrphanScan_AlwaysFix(beads, i, k, env, st) ==
    IF st.raised \/ i > Len(beads) THEN st
    ELSE IF k > Len(GetBlockedBy(beads[i])) THEN OrphanScan_AlwaysFix(beads, i + 1, 1, env, st)
    ELSE
      LET blocker_id == GetBlockedBy(beads[i])[k]
          started == [st EXCEPT !.count = @ + 1,
                                !.issues = Append(@, OrphanIssue(beads[i].id, blocker_id)),
                                !.commands = Append(@, BdCommand("dep remove", beads[i].id,
                                                                 blocker_id, "", FALSE))]
      IN  IF blocker_id \in BeadIdSet(beads)
          THEN OrphanScan_AlwaysFix(beads, i, k + 1, env, st)
          ELSE IF ~env.bd_available THEN [started EXCEPT !.raised = TRUE]
          ELSE IF env.out[<<i, k>>] = "ok"
               THEN OrphanScan_AlwaysFix(beads, i, k + 1, env,
                      [started EXCEPT
                         !.fixes_applied = Append(@, <<beads[i].id, blocker_id>>),
                         !.store = BdDepRemove(@, beads[i].id, blocker_id)])
          ELSE OrphanScan_AlwaysFix(beads, i, k + 1, env, started)

\* The two nested loops of check_orphaned_beads from blocker k of bead i on.
\* env.out[<<i, k>>] is the outcome of the removal command for that blocker.
RECURSIVE OrphanScan(_, _, _, _, _)
OrphanScan(beads, i, k, env, st) ==
    IF st.raised \/ i > Len(beads) THEN st
    ELSE IF k > Len(GetBlockedBy(beads[i])) THEN OrphanScan(beads, i + 1, 1, env, st)
    ELSE
      LET blocker_id == GetBlockedBy(beads[i])[k]
          found == [st EXCEPT !.count = @ + 1,
                              !.issues = Append(@, OrphanIssue(beads[i].id, blocker_id))]
          \* in fix mode subprocess.run follows at once, no input() before it
          started == [found EXCEPT !.commands =
                        Append(@, BdCommand("dep remove", beads[i].id, blocker_id, "", FALSE))]
      IN  IF blocker_id \in BeadIdSet(beads) THEN OrphanScan(beads, i, k + 1, env, st)
          ELSE IF ~env.auto_fix THEN OrphanScan(beads, i, k + 1, env, found)
          \* subprocess.run raises FileNotFoundError, which is not caught
          ELSE IF ~env.bd_available THEN [started EXCEPT !.raised = TRUE]
          ELSE IF env.out[<<i, k>>] = "ok"
               THEN OrphanScan(beads, i, k + 1, env,
                      [started EXCEPT
                         !.fixes_applied = Append(@, <<beads[i].id, blocker_id>>),
                         !.store = BdDepRemove(@, beads[i].id, blocker_id)])
          \* CalledProcessError: pass
          ELSE OrphanScan(beads, i, k + 1, env, started)

\* next((b for b in self.all_beads if b['id'] == bead_id), None): the
\* position of the first match, 0 for None.
FindBead(beads, bead_id) ==
    LET hits == {i \in 1..Len(beads) : beads[i].id = bead_id}
    IN  IF hits = {} THEN 0 ELSE CHOOSE i \in hits : \A j \in hits : i <= j

\* path.index(x): the first position of x, 0 when it raises ValueError.
PathIndex(path, x) ==
    LET hits == {i \in 1..Len(path) : path[i] = x}
    IN  IF hits = {} THEN 0 ELSE CHOOSE i \in hits : \A j \in hits : i <= j

RECURSIVE HasCycle(_, _, _, _)
RECURSIVE VisitBlockers(_, _, _, _, _)

\* has_cycle testing visited where it is to test recursion_stack.
HasCycle_VisitedTest(beads, bead_id, path, st) ==
    IF bead_id \in st.visited
    THEN LET cycle_start == PathIndex(path, bead_id)
         IN  IF cycle_start = 0
             THEN [st EXCEPT !.raised = TRUE, !.result = FALSE]
             ELSE [st EXCEPT
                     !.issues = Append(@, CircularIssue(
                                   SubSeq(path, cycle_start, Len(path)) \o <<bead_id>>)),
                     !.result = TRUE]
    ELSE VisitBlockers(beads, bead_id, 1, path,
                       [st EXCEPT !.visited = @ \cup {bead_id},
                                  !.recursion_stack = @ \cup {bead_id}])

\* has_cycle(bead_id, path) on the shared visited and recursion_stack sets;
\* st.result is its return value, st.raised an uncaught ValueError.
HasCycle(beads, bead_id, path, st) ==
    IF bead_id \in st.recursion_stack
    THEN LET cycle_start == PathIndex(path, bead_id)
         IN  IF cycle_start = 0
             THEN [st EXCEPT !.raised = TRUE, !.result = FALSE]
             ELSE [st EXCEPT
                     !.issues = Append(@, CircularIssue(
                                   SubSeq(path, cycle_start, Len(path)) \o <<bead_id>>)),
                     !.result = TRUE]
    ELSE IF bead_id \in st.visited THEN [st EXCEPT !.result = FALSE]
    ELSE VisitBlockers(beads, bead_id, 1, path,
                       [st EXCEPT !.visited = @ \cup {bead_id},
                                  !.recursion_stack = @ \cup {bead_id}])

\* The loop of has_cycle over the blockers of bead_id, from blocker k on, and
\* the statements after it.
VisitBlockers(beads, bead_id, k, path, st) ==
    LET b == FindBead(beads, bead_id)
        blockers == IF b = 0 THEN <<>> ELSE GetBlockedBy(beads[b])
    IN  IF k > Len(blockers)
        THEN [st EXCEPT !.recursion_stack = @ \ {bead_id}, !.result = FALSE]
        ELSE LET r == HasCycle(beads, blockers[k], path \o <<bead_id>>, st)
             IN  IF r.raised \/ r.result THEN r
                 ELSE VisitBlockers(beads, bead_id, k + 1, path, r)

\* The loop of check_circular_dependencies over the DFS roots, from bead i on.
RECURSIVE CircularScan(_, _, _)
CircularScan(beads, i, st) ==
    IF st.raised \/ i > Len(beads) THEN st
    ELSE IF beads[i].id \in st.visited THEN CircularScan(beads, i + 1, st)
    ELSE LET r == HasCycle(beads, beads[i].id, <<>>, st)
         IN  CircularScan(beads, i + 1,
                          IF r.result THEN [r EXCEPT !.count = @ + 1] ELSE r)

\* ------------------------------------------------------- stale check
\* A value of the 'claimed_at' key: the key is missing, or holds null, a
\* string or a number (text is the string, or the literal of the number).
ClaimedAt(kind, text) == [kind |-> kind, text |-> text]

\* 'if claimed_at:' - None, '' and 0 are false.
Truthy(c) ==
    \/ c.kind = "string" /\ c.text # ""
    \/ c.kind = "number" /\ c.text # "0"

\* claimed_at.replace('Z', '+00:00') on the strings of the model.
ReplaceZ(text) ==
    CASE text = "2026-01-02T06:00:00Z" -> "2026-01-02T06:00:00+00:00"
      [] text = "2026-01-01T11:00:00Z" -> "2026-01-01T11:00:00+00:00"
      [] OTHER -> text

\* datetime.fromisoformat: the hours since 2026-01-01T00:00:00+00:00, or -1
\* when it raises ValueError.
FromIsoFormat(text) ==
    CASE text = "2026-01-02T06:00:00+00:00" -> 30
      [] text = "2026-01-02T12:00:00+00:00" -> 36
      [] text = "2026-01-01T11:00:00+00:00" -> 11
      [] OTHER -> -1

\* datetime.now(tz) when the check runs: 2026-01-03T12:00:00+00:00.
NowHours == 60

\* An entry of BeadsDoctor.warnings of type 'stale'.
StaleWarning(bead_id, age_hours) ==
    [type |-> "stale", bead_id |-> bead_id, age_hours |-> age_hours]

\* The loop of check_stale_in_progress from bead i on; st.raised is an
\* exception that the except clause (ValueError, TypeError) does not catch.
RECURSIVE StaleScan(_, _, _, _)
StaleScan(beads, i, threshold, st) ==
    IF st.raised \/ i > Len(beads) THEN st
    ELSE IF beads[i].status # "in-progress" THEN StaleScan(beads, i + 1, threshold, st)
    ELSE LET claimed_at == beads[i].claimed_at
             claimed_time == FromIsoFormat(ReplaceZ(claimed_at.text))
             age == NowHours - claimed_time
         IN  IF ~Truthy(claimed_at) THEN StaleScan(beads, i + 1, threshold, st)
             \* a number has no method replace: AttributeError
             ELSE IF claimed_at.kind # "string" THEN [st EXCEPT !.raised = TRUE]
             \* ValueError: pass
             ELSE IF claimed_time = -1 THEN StaleScan(beads, i + 1, threshold, st)
             ELSE IF age > threshold
                  THEN StaleScan(beads, i + 1, threshold,
                         [st EXCEPT !.count = @ + 1,
                                    !.warnings = Append(@, StaleWarning(beads[i].id, age))])
                  ELSE StaleScan(beads, i + 1, threshold, st)

\* ------------------------------------------- label and description checks
\* suggest_label on the titles of the inputs: the first keyword of the chain
\* that the lowered title contains, 'implementation' when it has none.
SuggestLabel(title) ==
    CASE title = "Approve plan" -> "approval"
      [] title = "Write docs" -> "documentation"
      [] OTHER -> "implementation"

\* response.lower()
Lower(response) == IF response = "Y" THEN "y" ELSE response

\* An entry of BeadsDoctor.warnings of type 'missing_label'.
MissingLabelWarning(bead_id, suggested) ==
    [type |-> "missing_label", bead_id |-> bead_id, suggested_label |-> suggested]

\* An entry of BeadsDoctor.warnings of check_malformed_descriptions.
DescriptionWarning(type, bead_id) == [type |-> type, bead_id |-> bead_id]

\* What a successful 'bd update <bead> --label <label>' does to the store.
BdUpdateLabel(items, bead_id, label) ==
    [i \in 1..Len(items) |->
        IF items[i].id # bead_id THEN items[i]
        ELSE [items[i] EXCEPT !.labels = @ \cup {label}]]

\* The positions of the records check_missing_labels warns about: in fix mode
\* input() is called once for each.
LabelPrompts(beads) ==
    {i \in 1..Len(beads) : beads[i].labels \in {{}, {"todo"}, {"task"}}}

\* The loop of check_missing_labels from bead i on. env.response[i] is the
\* line input() returns for bead i, env.out[i] the outcome of its command.
RECURSIVE LabelScan(_, _, _, _)
LabelScan(beads, i, env, st) ==
    IF st.raised \/ i > Len(beads) THEN st
    ELSE
      LET suggested == SuggestLabel(beads[i].title)
          warned == [st EXCEPT !.count = @ + 1,
                               !.warnings = Append(@, MissingLabelWarning(beads[i].id, suggested))]
          started == [warned EXCEPT !.commands =
                        Append(@, BdCommand("update", beads[i].id, 0, suggested, TRUE))]
      IN  IF i \notin LabelPrompts(beads) THEN LabelScan(beads, i + 1, env, st)
          ELSE IF ~env.auto_fix THEN LabelScan(beads, i + 1, env, warned)
          ELSE IF Lower(env.response[i]) # "y" THEN LabelScan(beads, i + 1, env, warned)
          \* subprocess.run raises FileNotFoundError, which is not caught
          ELSE IF ~env.bd_available THEN [started EXCEPT !.raised = TRUE]
          ELSE IF env.out[i] = "ok"
               THEN LabelScan(beads, i + 1, env,
                      [started EXCEPT
                         !.fixes_applied = Append(@, <<beads[i].id, 0, suggested>>),
                         !.store = BdUpdateLabel(@, beads[i].id, suggested)])
          \* CalledProcessError: the failure is printed
          ELSE LabelScan(beads, i + 1, env, started)

\* The warnings check_malformed_descriptions appends for one record.
DescriptionWarnings(bead) ==
    (IF "approval" \in bead.labels /\ ~bead.body.plan
     THEN <<DescriptionWarning("malformed_approval", bead.id)>> ELSE <<>>)
    \o (IF "failure" \in bead.labels /\ ~bead.body.error_details
        THEN <<DescriptionWarning("malformed_failure", bead.id)>> ELSE <<>>)
    \o (IF bead.body.length < 20 /\ bead.status # "closed"
        THEN <<DescriptionWarning("short_description", bead.id)>> ELSE <<>>)

\* The loop of check_malformed_descriptions from bead i on.
RECURSIVE DescriptionScan(_, _, _)
DescriptionScan(beads, i, st) ==
    IF i > Len(beads) THEN st
    ELSE DescriptionScan(beads, i + 1,
           [st EXCEPT !.count = @ + Len(DescriptionWarnings(beads[i])),
                      !.warnings = @ \o DescriptionWarnings(beads[i])])

\* The exit status main gives a run whose checks have returned.
ExitStatus_CountWarnings(found_issues, found_warnings) ==
    IF found_issues # <<>> \/ found_warnings # <<>> THEN 1 ELSE 0

ExitStatus(found_issues, found_warnings) ==
    IF found_issues # <<>> THEN 1 ELSE 0

\* The values of --check that run_checks knows.
KnownChecks == {"orphaned", "circular", "stale", "labels", "descriptions"}

\* ------------------------------------------------------------ the inputs
Edges == [depends_on_id : BeadIds, type : DepTypes]

RECURSIVE SeqsUpTo(_, _)
SeqsUpTo(S, n) ==
    IF n = 0 THEN {<<>>}
    ELSE LET shorter == SeqsUpTo(S, n - 1)
         IN  shorter \cup {Append(s, x) : s \in {t \in shorter : Len(t) = n - 1}, x \in S}

\* The ways to give n records a list over S each, b entries in all.
RECURSIVE Assignments(_, _, _)
Assignments(S, n, b) ==
    IF n = 0 THEN {<<>>}
    ELSE UNION {{Append(rest, d) : rest \in Assignments(S, n - 1, b - Len(d))} :
                d \in SeqsUpTo(S, b)}

\* The dependency lists of n records, MaxEdges edges in all.
DepAssignments(n) == Assignments(Edges, n, MaxEdges)

\* The labels of record i when record f carries the label 'failure'.
LabelsOf(i, f) == IF i = f THEN {"failure"} ELSE {}

\* A record in the input shape of the store: no blocked_by key.
InputBead(i, s, d, l) ==
    [id |-> i, status |-> s, dependencies |-> d, labels |-> l,
     blocked_by |-> <<>>, has_blocked_by |-> FALSE]

\* The item lists of one source: ids 1..n in stored order.
IsStore(l) ==
    \E n \in 1..MaxBeads :
      \E ds \in DepAssignments(n) :
        \E ss \in [1..n -> RawStatuses] :
          l = [i \in 1..n |-> InputBead(i, ss[i], ds[i], {})]

\* The edges of item k of a chain: one blocking edge on its predecessor,
\* with or without a parent-child edge before or after it.
ChainDeps(k) ==
    LET blocking == IF k = 1 THEN <<>>
                    ELSE <<[depends_on_id |-> k - 1, type |-> "blocks"]>>
        grouping == {<<[depends_on_id |-> t, type |-> "parent-child"]>> : t \in 1..MaxChain}
    IN  {blocking} \cup {g \o blocking : g \in grouping} \cup {blocking \o g : g \in grouping}

\* A chain P1..Pn of open items, at most one of them labelled 'failure'.
IsChainStore(l) ==
    \E n \in 1..MaxChain :
      \E ds \in [1..n -> UNION {ChainDeps(k) : k \in 1..n}] :
        \E f \in 0..n :
          /\ \A k \in 1..n : ds[k] \in ChainDeps(k)
          /\ l = [i \in 1..n |-> InputBead(i, "open", ds[i], LabelsOf(i, f))]

\* The ids a blocked_by list may name; the last one is never an item.
BlockerIds == 1..(MaxDoctorBeads + 1)

\* The blocked_by lists of n records, MaxBlockers entries in all.
BlockerAssignments(n) == Assignments(BlockerIds, n, MaxBlockers)

\* A record that carries its blockers under the blocked_by key.
BlockedByBead(i, b) ==
    [id |-> i, status |-> "open", dependencies |-> <<>>, labels |-> {},
     blocked_by |-> b, has_blocked_by |-> TRUE]

\* The item lists the doctor is run on: records in the input shape, or
\* records with a blocked_by list.
IsDoctorStore(l) ==
    \/ \E n \in 1..MaxBeads :
         \E ds \in DepAssignments(n) :
           l = [i \in 1..n |-> InputBead(i, "open", ds[i], {})]
    \/ \E n \in 1..MaxDoctorBeads :
         \E bs \in BlockerAssignments(n) :
           l = [i \in 1..n |-> BlockedByBead(i, bs[i])]

\* The values the 'claimed_at' key of a record may have.
ClaimedAtValues ==
    {ClaimedAt("missing", ""), ClaimedAt("null", ""), ClaimedAt("number", "1767333600"),
     ClaimedAt("string", ""), ClaimedAt("string", "yesterday"),
     ClaimedAt("string", "2026-01-02T06:00:00Z"),
     ClaimedAt("string", "2026-01-02T12:00:00+00:00"),
     ClaimedAt("string", "2026-01-01T11:00:00Z")}

StaleStatuses == {"in-progress", "in_progress", "open"}

\* A record without dependencies that may have been claimed.
ClaimedBead(i, s, c) ==
    [id |-> i, status |-> s, dependencies |-> <<>>, labels |-> {},
     blocked_by |-> <<>>, has_blocked_by |-> FALSE, claimed_at |-> c]

\* The item lists the stale check is run on.
IsStaleStore(l) ==
    \E n \in 1..MaxStaleBeads :
      \E ss \in [1..n -> StaleStatuses] :
        \E cs \in [1..n -> ClaimedAtValues] :
          l = [i \in 1..n |-> ClaimedBead(i, ss[i], cs[i])]

\* The paths of the submodules: ranks in lexicographic order, one of them in
\* front of '.' (such as '-vendor/lib').
SubmodulePaths == {-1} \cup 1..MaxSubmodules

\* What loading and classifying a source comes to: load_beads returns True
\* ("ok") or False ("false"), an exception leaves load_beads or
\* categorize_beads ("raises"), or 'bd list' never returns ("hangs").
Outcomes == {"ok", "false", "raises", "hangs"}

PriorityValues ==
    {Priority("missing", 0), Priority("int", 0), Priority("int", 1), Priority("numeral", 0)}

\* The status and priority of an item of a multi-project run.
ProjectBeadKinds ==
    {[status |-> "open", priority |-> p] : p \in PriorityValues}
    \cup {[status |-> "closed", priority |-> Priority("int", 0)]}

\* A record without dependencies that carries a priority.
ProjectBead(i, kind) ==
    [id |-> i, status |-> kind.status, dependencies |-> <<>>, labels |-> {},
     blocked_by |-> <<>>, has_blocked_by |-> FALSE, priority |-> kind.priority]

\* The sources of a run: the root first, then submodules with distinct paths
\* in the order of .gitmodules; the ids of a source are distinct and stored in
\* ascending or in descending order; a source that does not load has no list.
IsSources(l) ==
    \E n \in 1..(1 + MaxSubmodules) :
      \E paths \in [2..n -> SubmodulePaths] :
        \E outs \in [1..n -> Outcomes] :
          \E ks \in Assignments(ProjectBeadKinds, n, MaxProjectBeads) :
            \E descending \in BOOLEAN :
              /\ \A i, j \in 2..n : i # j => paths[i] # paths[j]
              /\ \A i \in 1..n : outs[i] # "ok" => ks[i] = <<>>
              /\ descending => \E i \in 1..n : Len(ks[i]) >= 2
              /\ l = [i \in 1..n |->
                       [path |-> IF i = 1 THEN 0 ELSE paths[i],
                        outcome |-> outs[i],
                        beads |-> [k \in 1..Len(ks[i]) |->
                                     ProjectBead(IF descending THEN Len(ks[i]) + 1 - k ELSE k,
                                                 ks[i][k])]]]

\* Priority fields of every JSON type: missing, null, integers in and out of
\* 0..4, true, the string '1', the string 'high' and the number 2.5.
AllPriorityValues ==
    {Priority("missing", 0), Priority("null", 0), Priority("int", 0), Priority("int", 2),
     Priority("int", 7), Priority("bool", 1), Priority("numeral", 1), Priority("word", 0),
     Priority("float", 25)}

\* A root project that loads, with open items of any priority field.
IsPrioritySources(l) ==
    \E n \in 1..MaxPriorityBeads :
      \E ps \in [1..n -> AllPriorityValues] :
        l = <<[path |-> 0, outcome |-> "ok",
               beads |-> [i \in 1..n |->
                            ProjectBead(i, [status |-> "open", priority |-> ps[i]])]]>>

\* The blocking edges of the records of a source with dependencies; a target
\* may be an id that only the other source has.
SourceEdges == [depends_on_id : 1..MaxSourceBeads, type : {"blocks"}]

\* A record with dependencies and without priority.
DependentBead(i, s, d) ==
    [id |-> i, status |-> s, dependencies |-> d, labels |-> {},
     blocked_by |-> <<>>, has_blocked_by |-> FALSE, priority |-> Priority("missing", 0)]

\* A root project and one submodule that both load, with ids from the same
\* range; the records of one of them have dependencies.
IsLinkedSources(l) ==
    \E n, m \in 1..MaxSourceBeads :
      \E ds \in Assignments(SourceEdges, n, MaxSourceEdges) :
        \E ss \in [1..n -> {"open", "closed"}] :
          \E ts \in [1..m -> {"open", "closed"}] :
            \E in_root \in BOOLEAN :
              LET linked == [i \in 1..n |-> DependentBead(i, ss[i], ds[i])]
                  plain == [i \in 1..m |-> DependentBead(i, ts[i], <<>>)]
              IN  l = <<[path |-> 0, outcome |-> "ok",
                         beads |-> IF in_root THEN linked ELSE plain],
                        [path |-> 1, outcome |-> "ok",
                         beads |-> IF in_root THEN plain ELSE linked]>>

\* The body of a record by what the description check reads of it: its
\* length and whether it contains 'Plan:' and 'Error Details:'.
Body(length, plan, error_details) ==
    [length |-> length, plan |-> plan, error_details |-> error_details]

\* The records of a complete doctor run, but for id and blocked_by: one that
\* no check warns about, one without label and body, a claimed approval
\* without plan that was left alone.
RunProfiles ==
    {[status |-> "open", labels |-> {"implementation"}, title |-> "Fix login",
      body |-> Body(40, FALSE, FALSE), claimed_at |-> ClaimedAt("missing", "")],
     [status |-> "open", labels |-> {}, title |-> "Approve plan",
      body |-> Body(0, FALSE, FALSE), claimed_at |-> ClaimedAt("missing", "")],
     [status |-> "in-progress", labels |-> {"approval"}, title |-> "Approve plan",
      body |-> Body(40, FALSE, FALSE),
      claimed_at |-> ClaimedAt("string", "2026-01-01T11:00:00Z")]}

\* The blocked_by lists of record i of n: none, an id no record has, the
\* next record (the first after the last), or both.
RunBlockers(i, n) == {<<>>, <<n + 1>>, <<(i % n) + 1>>, <<(i % n) + 1, n + 1>>}

RunBead(i, b, p) ==
    [id |-> i, status |-> p.status, dependencies |-> <<>>, labels |-> p.labels,
     blocked_by |-> b, has_blocked_by |-> TRUE, claimed_at |-> p.claimed_at,
     title |-> p.title, body |-> p.body]

\* The item lists a complete doctor run is made on.
IsRunStore(l) ==
    \E n \in 1..MaxRunBeads :
      \E ps \in [1..n -> RunProfiles] :
        \E bs \in [1..n -> UNION {RunBlockers(i, n) : i \in 1..n}] :
          /\ \A i \in 1..n : bs[i] \in RunBlockers(i, n)
          /\ l = [i \in 1..n |-> RunBead(i, bs[i], ps[i])]

\* The lines input() can return: 'y', 'Y', or the default.
Responses == {"y", "Y", ""}

\* ------------------------------------------------------------- actions
\* The doctor before it is run.
DoctorIdle ==
    /\ d_pc = "init"
    /\ d_beads = <<>>
    /\ auto_fix = FALSE
    /\ check = "all"
    /\ bd_available = TRUE
    /\ issues = <<>>
    /\ fixes_applied = <<>>
    /\ ret = 0
    /\ raised = FALSE
    /\ warnings = <<>>
    /\ stale_threshold_hours = 24
    /\ commands = <<>>
    /\ doctor_exit = -1

\* BeadsSummary.__init__
SummaryInit ==
    /\ pc = "init"
    /\ all_beads = <<>>
    /\ closed = <<>>
    /\ in_progress = <<>>
    /\ ready = <<>>
    /\ blocked = <<>>
    /\ failures = <<>>

\* The multi-project run before it is started.
ProjectsIdle ==
    /\ sources = <<>>
    /\ next_bead = FALSE
    /\ p_pc = "init"
    /\ projects = <<>>
    /\ ranked = <<>>
    /\ exit_status = 0

Init ==
    /\ IsStore(store)
    /\ SummaryInit
    /\ DoctorIdle
    /\ ProjectsIdle

ChainInit ==
    /\ IsChainStore(store)
    /\ SummaryInit
    /\ DoctorIdle
    /\ ProjectsIdle

\* load_beads returning True: all_beads is the snapshot of the store.
LoadBeads ==
    /\ pc = "init"
    /\ all_beads' = store
    /\ pc' = "loaded"
    /\ UNCHANGED <<store, closed, in_progress, ready, blocked, failures, dvars, pvars>>

\* load_beads returning False (bd fails and issues.jsonl cannot be read);
\* main exits with status 1.
LoadBeadsFail ==
    /\ pc = "init"
    /\ pc' = "load_failed"
    /\ UNCHANGED <<store, all_beads, closed, in_progress, ready, blocked, failures, dvars, pvars>>

CategorizeBeads ==
    /\ pc = "loaded"
    /\ \E st \in {CategorizeFrom(1, [all_beads |-> all_beads, closed |-> closed,
                                    in_progress |-> in_progress, ready |-> ready,
                                    blocked |-> blocked, failures |-> failures])} :
           /\ all_beads' = st.all_beads
           /\ closed' = st.closed
           /\ in_progress' = st.in_progress
           /\ ready' = st.ready
           /\ blocked' = st.blocked
           /\ failures' = st.failures
    /\ pc' = "categorized"
    /\ UNCHANGED <<store, dvars, pvars>>

\* bd update <id> --close on an item the current summary lists as ready.
BdClose(i) ==
    /\ pc = "categorized"
    /\ i \in 1..Len(store)
    /\ \E k \in 1..Len(ready) : ready[k] = i
    /\ store[i].status # "closed"
    /\ store' = [store EXCEPT ![i].status = "closed"]
    /\ UNCHANGED <<svars, dvars, pvars>>

\* The next invocation of the script: a fresh BeadsSummary.
NewRun ==
    /\ pc \in {"categorized", "load_failed"}
    /\ pc' = "init"
    /\ all_beads' = <<>>
    /\ closed' = <<>>
    /\ in_progress' = <<>>
    /\ ready' = <<>>
    /\ blocked' = <<>>
    /\ failures' = <<>>
    /\ UNCHANGED <<store, dvars, pvars>>

\* Runs of the summary on a store that nothing changes.
Next ==
    \/ LoadBeads
    \/ LoadBeadsFail
    \/ CategorizeBeads
    \/ NewRun

Spec == Init /\ [][Next]_vars

\* Runs of the summary with ready items being closed between them.
WorkflowNext ==
    \/ LoadBeads
    \/ LoadBeadsFail
    \/ CategorizeBeads
    \/ NewRun
    \/ \E i \in 1..MaxChain : BdClose(i)

ChainSpec == ChainInit /\ [][WorkflowNext]_vars

\* BeadsDoctor.__init__ with the command line of main.
DoctorInit ==
    /\ IsDoctorStore(store)
    /\ SummaryInit
    /\ d_pc = "init"
    /\ d_beads = <<>>
    /\ auto_fix \in BOOLEAN
    /\ check \in {"all", "orphaned", "circular"}
    /\ bd_available \in BOOLEAN
    /\ issues = <<>>
    /\ fixes_applied = <<>>
    /\ ret = 0
    /\ raised = FALSE
    /\ warnings = <<>>
    /\ stale_threshold_hours = 24
    /\ commands = <<>>
    /\ doctor_exit = -1
    /\ ProjectsIdle

\* BeadsDoctor.load_beads returning True.
DoctorLoadBeads ==
    /\ d_pc = "init"
    /\ d_beads' = store
    /\ d_pc' = "loaded"
    /\ UNCHANGED <<store, svars, pvars, auto_fix, check, bd_available, issues, fixes_applied,
                   ret, raised, warnings, stale_threshold_hours, commands, doctor_exit>>

\* BeadsDoctor.load_beads returning False; main exits with status 1.
DoctorLoadBeadsFail ==
    /\ d_pc = "init"
    /\ d_pc' = "load_failed"
    /\ doctor_exit' = 1
    /\ UNCHANGED <<store, svars, pvars, d_beads, auto_fix, check, bd_available, issues,
                   fixes_applied, ret, raised, warnings, stale_threshold_hours, commands>>

CheckOrphanedBeads ==
    /\ d_pc = "loaded"
    /\ check \in {"all", "orphaned"}
    /\ \E out \in CommandOutcomes(d_beads, auto_fix /\ bd_available) :
         \E st \in {OrphanScan(d_beads, 1, 1,
                      [auto_fix |-> auto_fix, bd_available |-> bd_available, out |-> out],
                      [count |-> 0, issues |-> issues, fixes_applied |-> fixes_applied,
                       store |-> store, commands |-> commands, raised |-> FALSE])} :
             /\ issues' = st.issues
             /\ commands' = st.commands
             /\ fixes_applied' = st.fixes_applied
             /\ store' = st.store
             /\ raised' = st.raised
             /\ ret' = IF st.raised THEN ret ELSE st.count
    /\ d_pc' = "orphans_done"
    /\ UNCHANGED <<svars, pvars, d_beads, auto_fix, check, bd_available, warnings,
                   stale_threshold_hours, doctor_exit>>

CheckCircularDependencies ==
    /\ ~raised
    /\ \/ check = "all" /\ d_pc = "orphans_done"
       \/ check = "circular" /\ d_pc = "loaded"
    /\ \E st \in {CircularScan(d_beads, 1,
                    [count |-> 0, visited |-> {}, recursion_stack |-> {},
                     issues |-> issues, result |-> FALSE, raised |-> FALSE])} :
           /\ issues' = st.issues
           /\ raised' = st.raised
           /\ ret' = IF st.raised THEN ret ELSE st.count
    /\ d_pc' = "circular_done"
    /\ UNCHANGED <<store, svars, pvars, d_beads, auto_fix, check, bd_available, fixes_applied,
                   warnings, stale_threshold_hours, commands, doctor_exit>>

DoctorNext ==
    \/ DoctorLoadBeads
    \/ DoctorLoadBeadsFail
    \/ CheckOrphanedBeads
    \/ CheckCircularDependencies

DoctorSpec == DoctorInit /\ [][DoctorNext]_vars

\* BeadsDoctor.__init__ with --check stale or no --check, and --stale-threshold.
StaleInit ==
    /\ IsStaleStore(store)
    /\ SummaryInit
    /\ ProjectsIdle
    /\ d_pc = "init"
    /\ d_beads = <<>>
    /\ auto_fix = FALSE
    /\ check \in {"all", "stale"}
    /\ bd_available = TRUE
    /\ issues = <<>>
    /\ fixes_applied = <<>>
    /\ ret = 0
    /\ raised = FALSE
    /\ warnings = <<>>
    /\ stale_threshold_hours \in {24, 48}
    /\ commands = <<>>
    /\ doctor_exit = -1

CheckStaleInProgress ==
    /\ ~raised
    /\ \/ check = "all" /\ d_pc = "circular_done"
       \/ check = "stale" /\ d_pc = "loaded"
    /\ \E st \in {StaleScan(d_beads, 1, stale_threshold_hours,
                    [count |-> 0, warnings |-> warnings, raised |-> FALSE])} :
           /\ warnings' = st.warnings
           /\ raised' = st.raised
           /\ ret' = IF st.raised THEN ret ELSE st.count
    /\ d_pc' = "stale_done"
    /\ UNCHANGED <<store, svars, pvars, d_beads, auto_fix, check, bd_available, issues,
                   fixes_applied, stale_threshold_hours, commands, doctor_exit>>

StaleNext ==
    \/ DoctorLoadBeads
    \/ DoctorLoadBeadsFail
    \/ CheckOrphanedBeads
    \/ CheckCircularDependencies
    \/ CheckStaleInProgress

\* One run of the doctor on claimed items, up to the stale check.
StaleSpec == StaleInit /\ [][StaleNext]_vars

CheckMissingLabels ==
    /\ ~raised
    /\ \/ check = "all" /\ d_pc = "stale_done"
       \/ check = "labels" /\ d_pc = "loaded"
    /\ \E response \in [LabelPrompts(d_beads) -> IF auto_fix THEN Responses ELSE {""}] :
         \E out \in [LabelPrompts(d_beads) ->
                       IF auto_fix /\ bd_available THEN {"ok", "error"} ELSE {"error"}] :
           \E st \in {LabelScan(d_beads, 1,
                        [auto_fix |-> auto_fix, bd_available |-> bd_available,
                         response |-> response, out |-> out],
                        [count |-> 0, warnings |-> warnings, fixes_applied |-> fixes_applied,
                         store |-> store, commands |-> commands, raised |-> FALSE])} :
               /\ warnings' = st.warnings
               /\ fixes_applied' = st.fixes_applied
               /\ store' = st.store
               /\ commands' = st.commands
               /\ raised' = st.raised
               /\ ret' = IF st.raised THEN ret ELSE st.count
    /\ d_pc' = "labels_done"
    /\ UNCHANGED <<svars, pvars, d_beads, auto_fix, check, bd_available, issues,
                   stale_threshold_hours, doctor_exit>>

CheckMalformedDescriptions ==
    /\ ~raised
    /\ \/ check = "all" /\ d_pc = "labels_done"
       \/ check = "descriptions" /\ d_pc = "loaded"
    /\ \E st \in {DescriptionScan(d_beads, 1, [count |-> 0, warnings |-> warnings])} :
           /\ warnings' = st.warnings
           /\ ret' = st.count
    /\ d_pc' = "descriptions_done"
    /\ UNCHANGED <<store, svars, pvars, d_beads, auto_fix, check, bd_available, issues,
                   fixes_applied, raised, stale_threshold_hours, commands, doctor_exit>>

\* run_checks returning False on a --check it does not know; main exits with
\* status 1.
UnknownCheck ==
    /\ d_pc = "loaded"
    /\ check \notin KnownChecks \cup {"all"}
    /\ d_pc' = "unknown_check"
    /\ doctor_exit' = 1
    /\ UNCHANGED <<store, svars, pvars, d_beads, auto_fix, check, bd_available, issues,
                   fixes_applied, ret, raised, warnings, stale_threshold_hours, commands>>

\* run_checks has returned True.
ChecksReturned ==
    /\ ~raised
    /\ \/ check = "all" /\ d_pc = "descriptions_done"
       \/ check = "orphaned" /\ d_pc = "orphans_done"
       \/ check = "circular" /\ d_pc = "circular_done"
       \/ check = "stale" /\ d_pc = "stale_done"
       \/ check = "labels" /\ d_pc = "labels_done"
       \/ check = "descriptions" /\ d_pc = "descriptions_done"

\* The end of main: sys.exit(1) if doctor.issues, else sys.exit(0).
DoctorExit ==
    /\ ChecksReturned
    /\ d_pc' = "exited"
    /\ doctor_exit' = ExitStatus(issues, warnings)
    /\ UNCHANGED <<store, svars, pvars, d_beads, auto_fix, check, bd_available, issues,
                   fixes_applied, ret, raised, warnings, stale_threshold_hours, commands>>

\* An exception no handler of the doctor catches ends the process with a
\* traceback and status 1.
DoctorCrash ==
    /\ raised
    /\ doctor_exit = -1
    /\ d_pc' = "crashed"
    /\ doctor_exit' = 1
    /\ UNCHANGED <<store, svars, pvars, d_beads, auto_fix, check, bd_available, issues,
                   fixes_applied, ret, raised, warnings, stale_threshold_hours, commands>>

\* BeadsDoctor.__init__ with the command line of main, for a complete run.
RunInit ==
    /\ IsRunStore(store)
    /\ SummaryInit
    /\ ProjectsIdle
    /\ d_pc = "init"
    /\ d_beads = <<>>
    /\ auto_fix \in BOOLEAN
    /\ check \in {"all", "labels", "descriptions", "bogus"}
    /\ bd_available \in BOOLEAN
    /\ issues = <<>>
    /\ fixes_applied = <<>>
    /\ ret = 0
    /\ raised = FALSE
    /\ warnings = <<>>
    /\ stale_threshold_hours = 24
    /\ commands = <<>>
    /\ doctor_exit = -1

RunNext ==
    \/ DoctorLoadBeads
    \/ DoctorLoadBeadsFail
    \/ UnknownCheck
    \/ CheckOrphanedBeads
    \/ CheckCircularDependencies
    \/ CheckStaleInProgress
    \/ CheckMissingLabels
    \/ CheckMalformedDescriptions
    \/ DoctorExit
    \/ DoctorCrash

\* One run of the doctor from its command line to its exit status.
RunSpec == RunInit /\ [][RunNext]_vars

\* main of planning-summary in multi-project mode, with or without --next-bead.
ProjectsInit ==
    /\ store = <<>>
    /\ SummaryInit
    /\ DoctorIdle
    /\ IsSources(sources)
    /\ next_bead \in BOOLEAN
    /\ p_pc = "init"
    /\ projects = <<>>
    /\ ranked = <<>>
    /\ exit_status = 0

\* projects = process_all_projects("."), or the call that never returns.
ProcessAllProjects ==
    /\ p_pc = "init"
    /\ \E st \in {ScanProjects(sources, 1, [results |-> <<>>, returned |-> TRUE])} :
           IF st.returned
           THEN projects' = st.results /\ p_pc' = "scanned"
           ELSE projects' = projects /\ p_pc' = "in_load"
    /\ UNCHANGED <<store, svars, dvars, sources, next_bead, ranked, exit_status>>

\* print_next_bead(projects); return
PrintNextBead ==
    /\ p_pc = "scanned"
    /\ next_bead
    /\ ranked' = FindNextBead(projects)
    /\ exit_status' = 0
    /\ p_pc' = "done"
    /\ UNCHANGED <<store, svars, dvars, sources, next_bead, projects>>

\* print_multi_project_summary(projects) or the JSON output; main returns.
PrintMultiProjectSummary ==
    /\ p_pc = "scanned"
    /\ ~next_bead
    /\ exit_status' = 0
    /\ p_pc' = "done"
    /\ UNCHANGED <<store, svars, dvars, sources, next_bead, projects, ranked>>

ProjectsNext ==
    \/ ProcessAllProjects
    \/ PrintNextBead
    \/ PrintMultiProjectSummary

\* One multi-project run of planning-summary.
ProjectsSpec == ProjectsInit /\ [][ProjectsNext]_vars

\* The same run, taking a step whenever it can.
ProjectsFairSpec == ProjectsInit /\ [][ProjectsNext]_vars /\ WF_vars(ProjectsNext)

PriorityInit ==
    /\ store = <<>>
    /\ SummaryInit
    /\ DoctorIdle
    /\ IsPrioritySources(sources)
    /\ next_bead \in BOOLEAN
    /\ p_pc = "init"
    /\ projects = <<>>
    /\ ranked = <<>>
    /\ exit_status = 0

\* One multi-project run on a root project with priority fields of any type.
PrioritySpec == PriorityInit /\ [][ProjectsNext]_vars

LinkedInit ==
    /\ store = <<>>
    /\ SummaryInit
    /\ DoctorIdle
    /\ IsLinkedSources(sources)
    /\ next_bead \in BOOLEAN
    /\ p_pc = "init"
    /\ projects = <<>>
    /\ ranked = <<>>
    /\ exit_status = 0

\* One multi-project run on two sources whose ids collide.
LinkedSpec == LinkedInit /\ [][ProjectsNext]_vars

\* ------------------------------------------------------------ properties
InBucket(bucket, i) == \E k \in 1..Len(bucket) : bucket[k] = i

\* The source holds a closed item with this id.
TargetClosed(beads, t) ==
    \E j \in 1..Len(beads) : beads[j].id = t /\ beads[j].status = "closed"

\* The source holds an item with this id.
TargetExists(beads, t) == \E j \in 1..Len(beads) : beads[j].id = t

\* Positions of the blocking (non parent-child) edges of a bead.
BlockingEdges(bead) ==
    {k \in 1..Len(bead.dependencies) : bead.dependencies[k].type # "parent-child"}

\* Some blocking edge of the bead has a target that is not a closed item.
HasUnresolved(beads, bead) ==
    \E k \in BlockingEdges(bead) :
        ~TargetClosed(beads, bead.dependencies[k].depends_on_id)

OnlyIn(bucket, i) ==
    /\ InBucket(bucket, i)
    /\ \A other \in {closed, in_progress, ready, blocked} :
          other # bucket => ~InBucket(other, i)

Categorized == pc = "categorized"

\* C1: an item with raw status 'open' is in the ready bucket when none of its
\* blocking edges has a target that is not closed, and in the blocked bucket
\* when at least one has (a target that is no item of the source is not closed).
C1_OpenReadiness ==
    Categorized =>
      \A i \in 1..Len(all_beads) :
        all_beads[i].status = "open" =>
          IF HasUnresolved(all_beads, all_beads[i])
          THEN InBucket(blocked, i) /\ ~InBucket(ready, i)
          ELSE InBucket(ready, i) /\ ~InBucket(blocked, i)

\* An open item with two blocking edges, one resolved and one not, is blocked.
C1_Witness ==
    /\ Categorized
    /\ \E i \in 1..Len(all_beads) :
         /\ all_beads[i].status = "open"
         /\ InBucket(blocked, i)
         /\ \E k, m \in BlockingEdges(all_beads[i]) :
              /\ TargetClosed(all_beads, all_beads[i].dependencies[k].depends_on_id)
              /\ ~TargetClosed(all_beads, all_beads[i].dependencies[m].depends_on_id)

\* The list is a chain: every item open or closed, P1 without blocking edge,
\* every later Pk with exactly one blocking edge, on Pk-1.
IsChain(beads) ==
    /\ Len(beads) >= 1
    /\ \A k \in 1..Len(beads) :
         /\ beads[k].id = k
         /\ beads[k].status \in {"open", "closed"}
         /\ IF k = 1 THEN BlockingEdges(beads[k]) = {}
            ELSE /\ Cardinality(BlockingEdges(beads[k])) = 1
                 /\ \A e \in BlockingEdges(beads[k]) :
                      beads[k].dependencies[e].depends_on_id = k - 1

\* The first item of the list that is not closed (Len + 1 when all are).
FirstOpen(beads) ==
    CHOOSE k \in 1..(Len(beads) + 1) :
        /\ k <= Len(beads) => beads[k].status # "closed"
        /\ \A j \in 1..(k - 1) : beads[j].status = "closed"

ClosedPrefix(beads) ==
    \E k \in 1..(Len(beads) + 1) :
        /\ k <= Len(beads) => beads[k].status # "closed"
        /\ \A j \in 1..(k - 1) : beads[j].status = "closed"
        /\ \A j \in k..Len(beads) : beads[j].status # "closed"

\* C2: in a chain worked off by closing ready items, every classification has
\* as ready set exactly the first item that is not closed and as blocked set
\* exactly all later items.
C2_ChainOrder ==
    (Categorized /\ IsChain(all_beads)) =>
      /\ ClosedPrefix(all_beads)
      /\ LET f == FirstOpen(all_beads)
         IN  /\ ready = IF f <= Len(all_beads) THEN <<f>> ELSE <<>>
             /\ blocked = [k \in 1..(Len(all_beads) - f) |-> f + k]

\* Two closes into a chain of three: P3 is the ready item, nothing is blocked.
C2_Witness ==
    /\ Categorized
    /\ IsChain(all_beads)
    /\ Len(all_beads) = 3
    /\ all_beads[1].status = "closed"
    /\ all_beads[2].status = "closed"
    /\ ready = <<3>>
    /\ blocked = <<>>

\* C3: no item with a blocking edge on a target that is not closed is in the
\* ready bucket, whatever its raw status.
C3_NeverReadyWhileUnresolved ==
    Categorized =>
      \A i \in 1..Len(all_beads) :
        HasUnresolved(all_beads, all_beads[i]) => ~InBucket(ready, i)

\* C4: an item with raw status 'blocked' is in the blocked bucket.
C4_ExplicitBlocked ==
    Categorized =>
      \A i \in 1..Len(all_beads) :
        all_beads[i].status = "blocked" => InBucket(blocked, i)

\* C5: an item without status, or with a status outside the vocabulary, is
\* blocked if a blocking edge has a target that is not closed, else ready.
C5_UnsetOrUnrecognized ==
    Categorized =>
      \A i \in 1..Len(all_beads) :
        all_beads[i].status \in {Absent, "deferred"} =>
          IF HasUnresolved(all_beads, all_beads[i])
          THEN InBucket(blocked, i) /\ ~InBucket(ready, i)
          ELSE InBucket(ready, i) /\ ~InBucket(blocked, i)

\* C6: raw status 'closed' gives the closed bucket and 'in_progress' the
\* in-progress bucket, and no other bucket, whatever the dependencies are.
C6_ClosedAndInProgress ==
    Categorized =>
      \A i \in 1..Len(all_beads) :
        /\ all_beads[i].status = "closed" => OnlyIn(closed, i)
        /\ all_beads[i].status = "in_progress" => OnlyIn(in_progress, i)

\* A closed item and an in-progress item that each have a blocking edge on an
\* item that is not closed.
C6_Witness ==
    /\ Categorized
    /\ \E i, j \in 1..Len(all_beads) :
         /\ all_beads[i].status = "closed"
         /\ HasUnresolved(all_beads, all_beads[i])
         /\ InBucket(closed, i)
         /\ all_beads[j].status = "in_progress"
         /\ HasUnresolved(all_beads, all_beads[j])
         /\ InBucket(in_progress, j)

\* The list as it was loaded, before blocked_by was attached.
AsLoaded(beads) ==
    [i \in 1..Len(beads) |->
        [beads[i] EXCEPT !.blocked_by = <<>>, !.has_blocked_by = FALSE]]

NoParentChild(deps) == SelectSeq(deps, LAMBDA d : d.type # "parent-child")

\* The list with every parent-child edge removed.
WithoutParentChild(beads) ==
    [i \in 1..Len(beads) |->
        [beads[i] EXCEPT !.dependencies = NoParentChild(beads[i].dependencies)]]

\* C7: the buckets and the attached blocker lists are those of the same list
\* with all its parent-child edges removed.
C7_ParentChildIgnored ==
    Categorized =>
      LET r == CategorizeFrom(1, EmptyBuckets(WithoutParentChild(AsLoaded(all_beads))))
      IN  /\ closed = r.closed
          /\ in_progress = r.in_progress
          /\ ready = r.ready
          /\ blocked = r.blocked
          /\ \A i \in 1..Len(all_beads) :
               /\ all_beads[i].has_blocked_by = r.all_beads[i].has_blocked_by
               /\ all_beads[i].blocked_by = r.all_beads[i].blocked_by

\* An open item is ready although it has a parent-child edge on an item that
\* is not closed, and another one on an id that is no item of the source.
C7_Witness ==
    /\ Categorized
    /\ \E i \in 1..Len(all_beads) :
         /\ all_beads[i].status = "open"
         /\ InBucket(ready, i)
         /\ \E k, m \in 1..Len(all_beads[i].dependencies) :
              /\ all_beads[i].dependencies[k].type = "parent-child"
              /\ all_beads[i].dependencies[m].type = "parent-child"
              /\ TargetExists(all_beads, all_beads[i].dependencies[k].depends_on_id)
              /\ ~TargetClosed(all_beads, all_beads[i].dependencies[k].depends_on_id)
              /\ ~TargetExists(all_beads, all_beads[i].dependencies[m].depends_on_id)

\* An open item whose blocking edges all point to ids that are no item of the
\* source, and that has at least one such edge.
OnlyDangling(beads, bead) ==
    /\ bead.status = "open"
    /\ BlockingEdges(bead) # {}
    /\ \A k \in BlockingEdges(bead) :
         ~TargetExists(beads, bead.dependencies[k].depends_on_id)

\* C9 as stated: an open item whose only blocking edges are dangling is
\* classified as without them, that is ready.
C9_DanglingIgnored ==
    Categorized =>
      \A i \in 1..Len(all_beads) :
        OnlyDangling(all_beads, all_beads[i]) => InBucket(ready, i)

\* C9 amended: an open item whose only blocking edges are dangling is blocked,
\* and its blocked_by lists the missing ids in dependency order.
C9_DanglingBlocks ==
    Categorized =>
      \A i \in 1..Len(all_beads) :
        OnlyDangling(all_beads, all_beads[i]) =>
          /\ OnlyIn(blocked, i)
          /\ all_beads[i].has_blocked_by
          /\ all_beads[i].blocked_by =
               [k \in 1..Len(NoParentChild(all_beads[i].dependencies)) |->
                   NoParentChild(all_beads[i].dependencies)[k].depends_on_id]

\* An open item with one dependency, a dangling blocking edge, is blocked.
C9_Witness ==
    /\ Categorized
    /\ \E i \in 1..Len(all_beads) :
         /\ OnlyDangling(all_beads, all_beads[i])
         /\ Len(all_beads[i].dependencies) = 1
         /\ InBucket(blocked, i)

\* --------------------------------------------------- doctor properties
\* Every record of the list is in the input shape.
InputShape(beads) == \A i \in 1..Len(beads) : ~beads[i].has_blocked_by

\* The pairs <<item id, target id>> of the blocking edges from dependency k of
\* bead i on whose target is no item of the list, in input order.
RECURSIVE DanglingEdges(_, _, _)
DanglingEdges(beads, i, k) ==
    IF i > Len(beads) THEN <<>>
    ELSE IF k > Len(beads[i].dependencies) THEN DanglingEdges(beads, i + 1, 1)
    ELSE LET d == beads[i].dependencies[k]
         IN  IF d.type # "parent-child" /\ ~TargetExists(beads, d.depends_on_id)
             THEN <<<<beads[i].id, d.depends_on_id>>>> \o DanglingEdges(beads, i, k + 1)
             ELSE DanglingEdges(beads, i, k + 1)

OrphanFindings ==
    LET orphaned == SelectSeq(issues, LAMBDA x : x.type = "orphaned")
    IN  [k \in 1..Len(orphaned) |-> <<orphaned[k].bead_id, orphaned[k].blocker_id>>]

OrphansChecked == d_pc \in {"orphans_done", "circular_done"} /\ check # "circular"

\* C8: on records in the input shape the orphan findings are, in input order,
\* exactly the blocking edges whose target is no item of the list.
C8_OrphanPrecision ==
    (OrphansChecked /\ InputShape(d_beads)) =>
        OrphanFindings = DanglingEdges(d_beads, 1, 1)

\* The blocking edges of the list, in either record shape.
BlockingGraph(beads) ==
    UNION {{<<beads[i].id, beads[i].dependencies[k].depends_on_id>> :
               k \in BlockingEdges(beads[i])} : i \in 1..Len(beads)}
    \cup
    UNION {{<<beads[i].id, GetBlockedBy(beads[i])[k]>> :
               k \in 1..Len(GetBlockedBy(beads[i]))} : i \in 1..Len(beads)}

\* The nodes reached from the set S over at most n edges of E.
RECURSIVE ReachWithin(_, _, _)
ReachWithin(E, S, n) ==
    IF n = 0 THEN S
    ELSE LET R == ReachWithin(E, S, n - 1)
         IN  R \cup {e[2] : e \in {f \in E : f[1] \in R}}

Acyclic(E) ==
    \A e \in E : e[1] \notin ReachWithin(E, {e[2]}, Cardinality(E))

CircularChecked == d_pc = "circular_done"

\* C10: on a list whose blocking edges form no cycle, the cycle check raises
\* nothing, records no 'circular' issue and returns 0.
C10_NoCycleOnDag ==
    (CircularChecked /\ Acyclic(BlockingGraph(d_beads))) =>
        /\ ~raised
        /\ ret = 0
        /\ \A k \in 1..Len(issues) : issues[k].type # "circular"

\* The check has run over blocked_by edges without a cycle in which two items
\* share a blocker and one edge is dangling.
C10_Witness ==
    /\ CircularChecked
    /\ ret = 0
    /\ Acyclic(BlockingGraph(d_beads))
    /\ \E i, j \in 1..Len(d_beads) :
         /\ i # j
         /\ \E t \in BeadIdSet(d_beads) :
              /\ <<d_beads[i].id, t>> \in BlockingGraph(d_beads)
              /\ <<d_beads[j].id, t>> \in BlockingGraph(d_beads)
         /\ \E e \in BlockingGraph(d_beads) : e[2] \notin BeadIdSet(d_beads)
    /\ ~InputShape(d_beads)
\* The node sequences of the recorded 'circular' issues, in recording order.
CircularFindings ==
    LET circular == SelectSeq(issues, LAMBDA x : x.type = "circular")
    IN  [k \in 1..Len(circular) |-> circular[k].cycle]

\* The sequence starts and ends with the same node and each consecutive pair
\* is an edge of E.
IsCycleWalk(E, c) ==
    /\ Len(c) >= 2
    /\ c[1] = c[Len(c)]
    /\ \A k \in 1..(Len(c) - 1) : <<c[k], c[k + 1]>> \in E

\* The node lies on a cycle of E.
OnCycle(E, v) ==
    \E e \in E : e[1] = v /\ v \in ReachWithin(E, {e[2]}, Cardinality(E))

\* The nodes on a common cycle with v: its cyclic component.
CyclicComponent(E, v) ==
    {w \in ReachWithin(E, {v}, Cardinality(E)) : v \in ReachWithin(E, {w}, Cardinality(E))}

\* C11: on a list whose blocking edges contain a cycle, the cycle check
\* completes and records at least one 'circular' issue, and every recorded
\* cycle starts and ends with the same node and walks along blocking edges.
C11_CycleReported ==
    (CircularChecked /\ ~Acyclic(BlockingGraph(d_beads))) =>
        /\ ~raised
        /\ Len(CircularFindings) >= 1
        /\ \A k \in 1..Len(CircularFindings) :
              IsCycleWalk(BlockingGraph(d_beads), CircularFindings[k])

\* C12: the cycle check completes, and for every item on a cycle some recorded
\* cycle lies in the cyclic component of that item.
C12_EveryComponentReported ==
    CircularChecked =>
        /\ ~raised
        /\ \A v \in BeadIdSet(d_beads) :
              OnCycle(BlockingGraph(d_beads), v) =>
                \E k \in 1..Len(CircularFindings) :
                   \A m \in 1..Len(CircularFindings[k]) :
                      CircularFindings[k][m] \in CyclicComponent(BlockingGraph(d_beads), v)

\* The edges of E form one simple cycle: every node of E has one edge out and
\* one edge in, and every edge leads back to every node of E.
IsSimpleCycle(E) ==
    /\ E # {}
    /\ \A e \in E :
         /\ Cardinality({f \in E : f[1] = e[1]}) = 1
         /\ Cardinality({f \in E : f[2] = e[2]}) = 1
         /\ \A f \in E : f[1] \in ReachWithin(E, {e[2]}, Cardinality(E))

\* C13: on a list whose blocking edges form exactly one simple cycle, the
\* cycle check records exactly one 'circular' issue, and its node sequence
\* contains every item of the cycle.
C13_OneCycleOnce ==
    (CircularChecked /\ IsSimpleCycle(BlockingGraph(d_beads))) =>
        /\ Len(CircularFindings) = 1
        /\ \A e \in BlockingGraph(d_beads) :
              \E m \in 1..Len(CircularFindings[1]) : CircularFindings[1][m] = e[1]

\* ----------------------------------------------------- stale properties
StaleChecked == d_pc = "stale_done"

\* The age in hours of a 'claimed_at' that is a timestamp, -1 otherwise.
ClaimAge(c) ==
    IF c.kind = "string" /\ FromIsoFormat(ReplaceZ(c.text)) # -1
    THEN NowHours - FromIsoFormat(ReplaceZ(c.text))
    ELSE -1

\* The ids of the recorded stale findings.
StaleFindings == {warnings[k].bead_id : k \in {m \in 1..Len(warnings) : warnings[m].type = "stale"}}

\* C14: a stale finding is recorded for an item exactly when its raw status
\* is 'in_progress', its claimed_at is a timestamp and its age is strictly
\* greater than the threshold.
C14_StaleExactly ==
    (StaleChecked /\ ~raised) =>
      \A i \in 1..Len(d_beads) :
        d_beads[i].id \in StaleFindings <=>
          /\ d_beads[i].status = "in_progress"
          /\ ClaimAge(d_beads[i].claimed_at) > stale_threshold_hours

\* The 'claimed_at' is missing, or is nothing that parses as a timestamp.
Unparsable(c) == ClaimAge(c) = -1

\* C15: an in-progress item whose claimed_at is missing or does not parse
\* makes the stale check raise nothing and gets no finding, and every other
\* in-progress item that is over the threshold still gets its finding.
C15_UnparsableSkipped ==
    (StaleChecked /\ \E i \in 1..Len(d_beads) :
                        /\ d_beads[i].status = "in-progress"
                        /\ Unparsable(d_beads[i].claimed_at)) =>
      /\ ~raised
      /\ \A i \in 1..Len(d_beads) :
           d_beads[i].status = "in-progress" =>
             IF Unparsable(d_beads[i].claimed_at)
             THEN d_beads[i].id \notin StaleFindings
             ELSE d_beads[i].id \in StaleFindings <=>
                    ClaimAge(d_beads[i].claimed_at) > stale_threshold_hours

\* ------------------------------------------------ multi-project properties
Loads(src) == src.outcome = "ok"

NoSourceHangs == \A i \in 1..Len(sources) : sources[i].outcome # "hangs"

\* C16: when no load hangs, the scan returns one entry per source, the root
\* first, in source order; the entry of a source that loads holds its
\* classification and no error, the entry of any other source holds an error
\* and no classification; and the entries of the sources that load are the
\* entries of a scan of these sources alone.
C16_FailureIsolation ==
    (p_pc # "init" /\ NoSourceHangs) =>
        /\ p_pc \in {"scanned", "done"}
        /\ Len(projects) = Len(sources)
        /\ projects[1].path = 0
        /\ \A i \in 1..Len(sources) :
             /\ projects[i].path = sources[i].path
             /\ IF Loads(sources[i])
                THEN /\ projects[i].loaded
                     /\ projects[i].error = "None"
                     /\ projects[i].summary = CategorizeFrom(1, EmptyBuckets(sources[i].beads))
                ELSE /\ ~projects[i].loaded
                     /\ projects[i].error # "None"
        /\ SelectSeq(projects, LAMBDA e : e.loaded)
             = ScanProjects(SelectSeq(sources, Loads), 1,
                            [results |-> <<>>, returned |-> TRUE]).results

\* The root raises an exception and a submodule after it is classified with a
\* ready item.
C16_Witness ==
    /\ p_pc = "scanned"
    /\ Len(sources) >= 2
    /\ sources[1].outcome = "raises"
    /\ \E j \in 2..Len(projects) :
         /\ projects[j].loaded
         /\ Len(projects[j].summary.ready) >= 1

\* C17: the multi-project run ends with a failure status exactly when no
\* source loads.
C17_HardFailureWhenAllFail ==
    p_pc = "done" =>
        (exit_status # 0 <=> \A i \in 1..Len(sources) : ~Loads(sources[i]))

\* C18: the multi-project run always comes to its end with an entry for every
\* source, whatever the loads do.
C18_ScanTerminates == <>(p_pc = "done" /\ Len(projects) = Len(sources))

Ranked == p_pc = "done" /\ next_bead

\* The pairs <<source path, item id>> of the open items of the sources that
\* load (the items of a multi-project run have no dependencies).
ReadyItems ==
    UNION {{<<sources[i].path, sources[i].beads[k].id>> :
               k \in {m \in 1..Len(sources[i].beads) : sources[i].beads[m].status = "open"}} :
           i \in {j \in 1..Len(sources) : Loads(sources[j])}}

\* The priority an item is to be ranked with where its priority is an integer
\* or missing; the one it was ranked with otherwise.
RankPriority(c) ==
    IF c.bead.priority.kind = "int" THEN c.bead.priority.value
    ELSE IF c.bead.priority.kind = "missing" THEN 4
    ELSE c.sort_key[1]

RankKey(c) ==
    <<RankPriority(c), IF c.project_path = 0 THEN 0 ELSE 1, c.project_path, c.bead.id>>

Bijections(n) == {f \in [1..n -> 1..n] : \A i, j \in 1..n : f[i] = f[j] => i = j}

\* The project with its ready list in the order q.
PermutedReady(project, q) ==
    LET r == project.summary.ready
    IN  [project EXCEPT !.summary.ready = [k \in 1..Len(r) |-> r[q[k]]]]

\* The first i projects, each with its ready list in any order.
RECURSIVE ReadyVariants(_, _)
ReadyVariants(projs, i) ==
    IF i = 0 THEN {<<>>}
    ELSE {Append(v, PermutedReady(projs[i], q)) :
             v \in ReadyVariants(projs, i - 1),
             q \in Bijections(Len(projs[i].summary.ready))}

\* C20: find_next_bead gives the ranking it gave, for the projects list in
\* any order and with every ready list in any order.
C20_OrderIndependent ==
    Ranked =>
        \A v \in ReadyVariants(projects, Len(projects)) :
            \A pp \in Bijections(Len(projects)) :
                FindNextBead([k \in 1..Len(projects) |-> v[pp[k]]]) = ranked

\* The ranking differs from the order in which the candidates were collected,
\* and two of its items are of the same source and priority.
C20_Witness ==
    /\ Ranked
    /\ Candidates(projects, 1) # ranked
    /\ \E k, m \in 1..Len(ranked) :
         /\ k < m
         /\ ranked[k].project_path = ranked[m].project_path
         /\ ranked[k].sort_key[1] = ranked[m].sort_key[1]

\* ------------------------------------------------ classifier side effects
\* The target ids of the non parent-child dependencies of the bead whose
\* target is no closed item of the list, in dependency order.
UnresolvedTargets(beads, bead) ==
    LET deps == SelectSeq(bead.dependencies,
                          LAMBDA d : /\ d.type # "parent-child"
                                     /\ ~TargetClosed(beads, d.depends_on_id))
    IN  [k \in 1..Len(deps) |-> deps[k].depends_on_id]

\* C26: an item in the blocked bucket carries a non-empty blocked_by list
\* that is, in dependency order, the targets of its non parent-child
\* dependencies that are not closed; an item in any other bucket has no
\* blocked_by attached.
C26_BlockedByAttached ==
    Categorized =>
      \A i \in 1..Len(all_beads) :
        IF InBucket(blocked, i)
        THEN /\ all_beads[i].has_blocked_by
             /\ all_beads[i].blocked_by # <<>>
             /\ all_beads[i].blocked_by = UnresolvedTargets(all_beads, all_beads[i])
        ELSE ~all_beads[i].has_blocked_by

\* A blocked item with two blocking dependencies of which one is on a closed
\* item: its list holds the other target only; the closed item has no list.
C26_Witness ==
    /\ Categorized
    /\ \E i, j \in 1..Len(all_beads) :
         /\ InBucket(blocked, i)
         /\ Len(all_beads[i].dependencies) = 2
         /\ BlockingEdges(all_beads[i]) = {1, 2}
         /\ Len(all_beads[i].blocked_by) = 1
         /\ InBucket(closed, j)
         /\ ~all_beads[j].has_blocked_by

\* How often position i occurs in the bucket.
Occurrences(bucket, i) == Cardinality({k \in 1..Len(bucket) : bucket[k] = i})

\* C27: after categorize_beads every item of the list is in exactly one of
\* the buckets closed, in_progress, ready, blocked, once; the four counts sum
\* to the number of items, the closed count is the number of items with
\* status 'closed' and the in-progress count the number with an in-progress
\* status.
C27_BucketsPartition ==
    Categorized =>
      /\ \A i \in 1..Len(all_beads) :
           Occurrences(closed, i) + Occurrences(in_progress, i)
             + Occurrences(ready, i) + Occurrences(blocked, i) = 1
      /\ Len(closed) + Len(in_progress) + Len(ready) + Len(blocked) = Len(all_beads)
      /\ Len(closed) = Cardinality({i \in 1..Len(all_beads) : all_beads[i].status = "closed"})
      /\ Len(in_progress) = Cardinality({i \in 1..Len(all_beads) :
                                 all_beads[i].status \in {"in-progress", "in_progress"}})

\* Two items in two buckets, one of them with a status outside the chain.
C27_Witness ==
    /\ Categorized
    /\ Len(all_beads) = 2
    /\ \E i, j \in 1..2 :
         /\ all_beads[i].status = "deferred"
         /\ InBucket(ready, i)
         /\ all_beads[j].status = "in_progress"
         /\ InBucket(in_progress, j)

\* ------------------------------------------------- doctor: stack and fixes
\* C28: when the cycle check is over no path is left, so the recursion stack
\* is empty, and no lookup of a stacked node in the path has failed.
C28_StackIsPath ==
    CircularChecked =>
      /\ ~raised
      /\ CircularScan(d_beads, 1,
                      [count |-> 0, visited |-> {}, recursion_stack |-> {},
                       issues |-> <<>>, result |-> FALSE, raised |-> FALSE]).recursion_stack = {}

\* C30: in fix mode the orphan check is never left by an exception, records a
\* finding for every orphan edge of the list, and lists a fix exactly for
\* edges that are gone from the store.
C30_RemovalFailureIsolated ==
    (OrphansChecked /\ auto_fix /\ d_pc = "orphans_done") =>
      /\ ~raised
      /\ Len(OrphanFindings) = Cardinality(OrphanPositions(d_beads))
      /\ \A k \in 1..Len(fixes_applied) :
           \A i \in 1..Len(store) :
              store[i].id = fixes_applied[k][1] =>
                 \A m \in 1..Len(GetBlockedBy(store[i])) :
                    GetBlockedBy(store[i])[m] # fixes_applied[k][2]

Scanned == p_pc \in {"scanned", "done"}

\* The bucket of an open or closed item by the items of its own list.
OwnBucket(beads, bead) ==
    IF bead.status = "closed" THEN "closed"
    ELSE IF UnresolvedTargets(beads, bead) # <<>> THEN "blocked"
    ELSE "ready"

\* The bucket the summary has position k in.
BucketIn(summary, k) ==
    IF InBucket(summary.closed, k) THEN "closed"
    ELSE IF InBucket(summary.in_progress, k) THEN "in_progress"
    ELSE IF InBucket(summary.ready, k) THEN "ready"
    ELSE IF InBucket(summary.blocked, k) THEN "blocked"
    ELSE "none"

\* C25: the bucket and the blocker list of every item are given by the items
\* of its own source (a dependency counts as resolved only when that source
\* has a closed item with the id), and the entry of a source is the entry of
\* a scan of that source alone.
C25_SourceIsolation ==
    Scanned =>
      \A i \in 1..Len(sources) :
        /\ \A k \in 1..Len(sources[i].beads) :
             LET bead == sources[i].beads[k]
                 after == projects[i].summary.all_beads[k]
             IN  /\ BucketIn(projects[i].summary, k) = OwnBucket(sources[i].beads, bead)
                 /\ after.has_blocked_by = (OwnBucket(sources[i].beads, bead) = "blocked")
                 /\ after.has_blocked_by =>
                      after.blocked_by = UnresolvedTargets(sources[i].beads, bead)
        /\ projects[i] = ScanProjects(<<sources[i]>>, 1,
                                      [results |-> <<>>, returned |-> TRUE]).results[1]

\* An open item is blocked by an id that its own source does not have closed,
\* while the other source has a closed item with that id.
C25_Witness ==
    /\ Scanned
    /\ \E i, j \in 1..Len(sources) :
         /\ i # j
         /\ \E k \in 1..Len(sources[i].beads) :
              /\ InBucket(projects[i].summary.blocked, k)
              /\ \E e \in 1..Len(sources[i].beads[k].dependencies) :
                   LET t == sources[i].beads[k].dependencies[e].depends_on_id
                   IN  /\ ~TargetClosed(sources[i].beads, t)
                       /\ TargetClosed(sources[j].beads, t)

\* ------------------------------------------- doctor: exit status and fixes
HasIssue(type) == \E k \in 1..Len(issues) : issues[k].type = type

StructuralFinding == HasIssue("orphaned") \/ HasIssue("circular")

WarningTypes ==
    {"stale", "missing_label", "malformed_approval", "malformed_failure", "short_description"}

\* C22 as stated: the process ends with status 0 when no orphan and no cycle
\* finding was recorded and with status 1 when one was, and the other
\* findings are warnings.
C22_ExitCodeByFindings ==
    doctor_exit # -1 =>
      /\ doctor_exit = IF StructuralFinding THEN 1 ELSE 0
      /\ \A k \in 1..Len(warnings) : warnings[k].type \in WarningTypes

\* C22: a run whose checks have all returned ends with status 1 when an
\* orphan or a cycle finding was recorded and with status 0 otherwise, the
\* stale, label and description findings being warnings that have no part in
\* it; a run that ends before that (store not loaded, unknown --check,
\* uncaught exception) ends with status 1.
C22_ExitCodeOfCompletedRun ==
    doctor_exit # -1 =>
      /\ d_pc = "exited" => doctor_exit = IF StructuralFinding THEN 1 ELSE 0
      /\ d_pc # "exited" =>
           /\ doctor_exit = 1
           /\ \/ d_pc = "load_failed"
              \/ d_pc = "unknown_check" /\ check \notin KnownChecks
              \/ d_pc = "crashed" /\ raised
      /\ \A k \in 1..Len(issues) : issues[k].type \in {"orphaned", "circular"}
      /\ \A k \in 1..Len(warnings) : warnings[k].type \in WarningTypes

\* A run of all five checks records warnings and ends with status 0.
C22_Witness ==
    /\ d_pc = "exited"
    /\ check = "all"
    /\ doctor_exit = 0
    /\ \E k \in 1..Len(warnings) : warnings[k].type = "stale"
    /\ \E k \in 1..Len(warnings) : warnings[k].type = "missing_label"
    /\ \E k \in 1..Len(warnings) : warnings[k].type = "short_description"

\* C23: every command that removes an orphan edge is started after a
\* confirmation given for it.
C23_RemovalConfirmed ==
    \A k \in 1..Len(commands) : commands[k].name = "dep remove" => commands[k].confirmed

\* C24: without fix mode no step of the run starts a command that changes
\* the store or changes the store, and in any mode the cycle check starts
\* none and leaves the store as it is.
C24_NoUnauthorizedMutation ==
    [][/\ ~auto_fix => (commands' = commands /\ store' = store)
       /\ d_pc' = "circular_done" => (commands' = commands /\ store' = store)]_vars

\* A run without --fix has recorded an orphan, a cycle and warnings, and the
\* store is what was loaded.
C24_Witness ==
    /\ d_pc = "exited"
    /\ ~auto_fix
    /\ HasIssue("orphaned")
    /\ HasIssue("circular")
    /\ warnings # <<>>
    /\ commands = <<>>
    /\ store = d_beads

\* ------------------------------------------------- working off a DAG
DagEdges == [depends_on_id : 1..MaxDagBeads, type : {"blocks"}]

\* The item lists with raw status 'open' or 'closed' whose blocking edges
\* form no cycle and all name an item of the list.
IsDagStore(l) ==
    \E n \in 1..MaxDagBeads :
      \E ds \in Assignments(DagEdges, n, MaxDagEdges) :
        \E ss \in [1..n -> {"open", "closed"}] :
          /\ l = [i \in 1..n |-> InputBead(i, ss[i], ds[i], {})]
          /\ \A i \in 1..n : \A k \in 1..Len(ds[i]) : ds[i][k].depends_on_id <= n
          /\ Acyclic(BlockingGraph(l))

DagInit ==
    /\ IsDagStore(store)
    /\ SummaryInit
    /\ DoctorIdle
    /\ ProjectsIdle

\* Runs of the summary that load, with ready items being closed between them.
DagNext ==
    \/ LoadBeads
    \/ CategorizeBeads
    \/ NewRun
    \/ \E i \in 1..MaxDagBeads : BdClose(i)

DagSpec == DagInit /\ [][DagNext]_vars

\* The workflow of the claim: the summary is run again and again, and a ready
\* item is closed again and again for as long as a summary lists one.
DagFairSpec ==
    /\ DagSpec
    /\ WF_vars(LoadBeads)
    /\ WF_vars(CategorizeBeads)
    /\ WF_vars(NewRun)
    /\ SF_vars(\E i \in 1..MaxDagBeads : BdClose(i))

AllClosed(beads) == \A i \in 1..Len(beads) : beads[i].status = "closed"

\* C29: on such a source every classification with an item that is not closed
\* has a ready item, every ready item has all its blocking targets closed, and
\* closing ready items and classifying again closes every item in the end.
C29_DagDrains ==
    /\ [](Categorized =>
            /\ ~AllClosed(all_beads) => ready # <<>>
            /\ \A k \in 1..Len(ready) :
                 \A e \in BlockingEdges(all_beads[ready[k]]) :
                   TargetClosed(all_beads, all_beads[ready[k]].dependencies[e].depends_on_id))
    /\ <>AllClosed(store)

\* An item with two blocking targets was listed as ready and closed last:
\* every item of the store is closed.
C29_Witness ==
    /\ Categorized
    /\ AllClosed(store)
    /\ \E k \in 1..Len(ready) :
         /\ all_beads[ready[k]].status = "open"
         /\ Cardinality({all_beads[ready[k]].dependencies[e].depends_on_id :
                           e \in BlockingEdges(all_beads[ready[k]])}) = 2

====
